---- MODULE Spec2Model ----
(***************************************************************************)
(* The ranking objectives of src/objective/rank_objective.hpp:             *)
(* RankingObjective (Init, GetGradients, Sample), LambdarankNDCG and       *)
(* RankXENDCG, as a state machine.                                         *)
(*                                                                         *)
(* Numbers.  A double is an exact rational <<numerator, denominator>> in   *)
(* lowest terms with a positive denominator.  Two values have denominator  *)
(* 0: Stale, the unknown content a caller's output buffer holds before a   *)
(* call, and NaN.  Arithmetic on Stale gives Stale, so a value that was    *)
(* accumulated onto the buffer's old content is still Stale.              *)
(* std::exp is modelled in base 2 (the score unit is ln 2), linearly       *)
(* interpolated between integers; std::log2 is its inverse, rounded up to  *)
(* a multiple of 1/4.  The conversions to score_t (float) are exact.       *)
(* Arrays are sequences; the code's 0-based index i is position i + 1.     *)
(***************************************************************************)
EXTENDS Integers, Sequences, FiniteSets, TLC

-----------------------------------------------------------------------------
(* Bounds of the model *)

MaxData == 3         \* documents in a dataset of the small universe
MaxLabel == 1        \* labels are 0..MaxLabel
MaxInits == 1        \* Init calls on one objective
MaxReinits == 2      \* further Init calls where Init is repeated
MaxWraps == 2        \* query sizes reach MaxWraps * 2^15 + 1
MaxCalls == 2        \* GetGradients calls that are compared
MaxSeed == 0         \* objective_seed is 0..MaxSeed
MaxSigmoid == 3      \* config.sigmoid is 0..MaxSigmoid where GetSigmoid is probed

\* string arrays: elements of an array, bytes asked for each string, bytes of
\* a content handed to setitem
MaxElements == 2

MaxStringSize == 2

MaxContent == 2

-----------------------------------------------------------------------------
(* double arithmetic *)

Abs(x) == IF x < 0 THEN -x ELSE x

RECURSIVE Gcd(_, _)
Gcd(a, b) == IF b = 0 THEN a ELSE Gcd(b, a % b)

Stale == <<0, 0>>
NaN == <<1, 0>>
Zero == <<0, 1>>
One == <<1, 1>>

IsNum(x) == x[2] # 0

Frac(n, d) ==
  IF d = 0 THEN NaN
  ELSE LET g == Gcd(Abs(n), Abs(d))
       IN  <<(IF d < 0 THEN -n ELSE n) \div g, Abs(d) \div g>>

Num(n) == <<n, 1>>

Bad(x, y) == IF x = Stale \/ y = Stale THEN Stale ELSE NaN

Lcm(a, b) == (a \div Gcd(a, b)) * b

\* the operations reduce before they multiply, so that a small result is
\* computed with small numbers
RAdd(x, y) ==
  IF IsNum(x) /\ IsNum(y)
  THEN LET d == Lcm(x[2], y[2])
       IN  Frac(x[1] * (d \div x[2]) + y[1] * (d \div y[2]), d)
  ELSE Bad(x, y)

RNeg(x) == IF IsNum(x) THEN <<-x[1], x[2]>> ELSE x

RSub(x, y) == RAdd(x, RNeg(y))

RMul(x, y) ==
  IF IsNum(x) /\ IsNum(y)
  THEN LET g == Gcd(Abs(x[1]), y[2])
           h == Gcd(Abs(y[1]), x[2])
       IN  Frac((x[1] \div g) * (y[1] \div h), (x[2] \div h) * (y[2] \div g))
  ELSE Bad(x, y)

RDiv(x, y) ==
  IF IsNum(x) /\ IsNum(y)
  THEN IF y[1] = 0 THEN NaN
       ELSE RMul(x, IF y[1] < 0 THEN <<-y[2], -y[1]>> ELSE <<y[2], y[1]>>)
  ELSE Bad(x, y)

RAbs(x) == IF IsNum(x) THEN <<Abs(x[1]), x[2]>> ELSE x

\* x < y; false when either is not a number, as a comparison with NaN is
RLess(x, y) ==
  /\ IsNum(x) /\ IsNum(y)
  /\ LET d == Lcm(x[2], y[2])
     IN  x[1] * (d \div x[2]) < y[1] * (d \div y[2])

RLeq(x, y) == IsNum(x) /\ IsNum(y) /\ ~RLess(y, x)

\* static_cast<size_t> of a non-negative double: truncation
RFloor(x) == x[1] \div x[2]

RECURSIVE Pow2(_)
Pow2(k) == IF k <= 0 THEN 1 ELSE 2 * Pow2(k - 1)

\* std::exp, base 2: 2^floor(x) * (1 + (x - floor(x)))
Exp(x) ==
  IF ~IsNum(x) THEN x
  ELSE LET k == RFloor(x)
           m == RAdd(One, RSub(x, Num(k)))
       IN  IF k >= 0 THEN RMul(Num(Pow2(k)), m) ELSE RDiv(m, Num(Pow2(-k)))

RECURSIVE FloorLog2(_)
FloorLog2(n) == IF n < 2 THEN 0 ELSE 1 + FloorLog2(n \div 2)

\* std::log2 of y >= 1, the inverse of Exp: k + (y / 2^k - 1) for
\* 2^k <= y < 2^(k+1), rounded up to a multiple of 1/4 (positive for y > 1)
Log2Up(m) == IF m[2] = 1 THEN m[1] ELSE RFloor(m) + 1

Log2At(y, k) ==
  RAdd(Num(k), Frac(Log2Up(RMul(Num(4), RSub(RDiv(y, Num(Pow2(k))), One))), 4))

Log2(y) == IF ~IsNum(y) THEN y ELSE Log2At(y, FloorLog2(RFloor(y)))

RECURSIVE RSum(_)
RSum(s) == IF s = <<>> THEN Zero ELSE RAdd(Head(s), RSum(Tail(s)))

-----------------------------------------------------------------------------
(* arrays *)

At(s, i) == s[i + 1]

\* the array a loop has filled, element by element
Filled(f) == f \o <<>>

\* p + start, read over cnt elements
Slice(s, start, cnt) == Filled([k \in 1..cnt |-> s[start + k]])

\* the elements of a set of integers in ascending order
RECURSIVE SortedSeq(_)
SortedSeq(S) ==
  IF S = {} THEN <<>>
  ELSE LET m == CHOOSE x \in S : \A y \in S : x <= y
       IN  <<m>> \o SortedSeq(S \ {m})

Range(s) == {s[k] : k \in 1..Len(s)}

NoDuplicates(s) == \A a, b \in 1..Len(s) : s[a] = s[b] => a = b

-----------------------------------------------------------------------------
(* Collaborators of the objective: Random, DCGCalculator, Common, meta.h *)

\* the reserved "missing" score
kMinScore == -1000

\* the threshold of RankXENDCG's degenerate branch
kEpsilon == <<1, 1000000>>

\* Random: a linear congruential generator over 0..RandMod-1
RandMod == 8
RandMul == 5
RandInc == 3
\* NextFloat returns RandInt16 / FloatLevels, a value in [0, 1)
FloatLevels == 2

RandNext(x) == (RandMul * x + RandInc) % RandMod

\* the value NextFloat returns once the generator has moved to state x
NextFloat(x) == Frac(x \div (RandMod \div FloatLevels), FloatLevels)

\* the value NextInt(lower, upper) returns once the generator has moved to x
NextInt(x, lower, upper) == (x % (upper - lower)) + lower

\* Random::Sample(N, K) draws one NextInt(0, r + 1) for r = N-K .. N-1 and
\* keeps v, or r when v is already kept
SampleInsert(kept, v, r) == IF v \in kept THEN kept \cup {r} ELSE kept \cup {v}

\* DCGCalculator::Init fills discount_ with 1 / log2(2 + i)
kMaxPosition == 8

discount_ == [i \in 1..kMaxPosition |-> RDiv(One, Log2(Num(1 + i)))]

\* DCGCalculator::GetDiscount(i)
GetDiscount(i) == At(discount_, i)

\* the labels of a query in descending order
RECURSIVE SortedDesc(_)
SortedDesc(s) ==
  IF s = <<>> THEN <<>>
  ELSE LET k == CHOOSE a \in 1..Len(s) : \A b \in 1..Len(s) : s[a] >= s[b]
       IN  <<s[k]>> \o SortedDesc([j \in 1..(Len(s) - 1) |->
                                      IF j < k THEN s[j] ELSE s[j + 1]])

\* DCGCalculator::CalMaxDCGAtK: the DCG of the best ordering, cut at k
CalMaxDCGAtK(k, label, gain) ==
  LET best == SortedDesc(label)
      top == IF k < Len(best) THEN k ELSE Len(best)
  IN  RSum([i \in 1..top |-> RMul(Num(At(gain, best[i])), GetDiscount(i - 1))])

\* DCGCalculator::CheckLabel: every label is a supported non-negative integer
CheckLabel(label) == \A i \in 1..Len(label) : label[i] >= 0 /\ label[i] <= MaxLabel

\* DCGCalculator::DefaultLabelGain: an empty label_gain becomes 2^i - 1
DefaultLabelGain(label_gain) ==
  IF label_gain = <<>> THEN [i \in 1..(MaxLabel + 1) |-> Pow2(i - 1) - 1]
  ELSE label_gain

\* Common::Softmax: exp(score - max) / sum
Normalized(w, wsum) == Filled([i \in 1..Len(w) |-> RDiv(w[i], wsum)])

Exponentials(score, wmax) ==
  Filled([i \in 1..Len(score) |-> Exp(Num(score[i] - wmax))])

SoftmaxOf(w) == Normalized(w, RSum(w))

Softmax(score) ==
  SoftmaxOf(Exponentials(score,
              CHOOSE m \in Range(score) : \A x \in Range(score) : x <= m))

\* the conversion of an int to the int16_t a vector<int16_t> stores
ToInt16(v) == ((v + 32768) % 65536) - 32768

-----------------------------------------------------------------------------
(* The inputs: a Config, the dataset's Metadata, the score vectors *)

lambdarank_truncation_level == 2

\* config.label_gain: empty, which asks for the default gains, or one gain
\* per label, here a gain of 0 for every label
ZeroGains == [i \in 1..(MaxLabel + 1) |-> 0]

LambdarankConfigs ==
  [kind : {"lambdarank"}, objective_seed : 0..MaxSeed, pair_sample : {0, 1},
   sigmoid : {0, 1}, lambdamart_norm : BOOLEAN, label_gain : {<<>>}]
  \cup
  [kind : {"lambdarank"}, objective_seed : 0..MaxSeed, pair_sample : {0, 1},
   sigmoid : {1}, lambdamart_norm : {TRUE}, label_gain : {ZeroGains}]

XendcgConfigs ==
  [kind : {"rank_xendcg"}, objective_seed : 0..MaxSeed, pair_sample : {0, 1},
   sigmoid : {1}, lambdamart_norm : {FALSE}, label_gain : {<<>>}]

\* nullptr is the empty sequence
QueryBoundaries(n) == {<<>>, <<0, n>>} \cup {<<0, k, n>> : k \in 1..(n - 1)}

Weights(n) == {<<>>, [i \in 1..n |-> Num(1 + (i % 2))]}

\* the label vectors: the valid ones, and one that CheckLabel rejects
Labels(n) == [1..n -> 0..MaxLabel] \cup {[i \in 1..n |-> -1]}

Metadatas(n) ==
  [label : Labels(n), weights : Weights(n),
   query_boundaries : QueryBoundaries(n)]

\* the score vectors of a first call, over the values the caller uses; the
\* sentinel kMinScore is a score of LambdarankNDCG only, and without it the
\* datasets beyond MaxData get two vectors
ScoreVectors(kind, n, values) ==
  IF kind = "rank_xendcg" THEN
    IF n <= MaxData THEN [1..n -> values \ {kMinScore}]
    ELSE {[i \in 1..n |-> 0], [i \in 1..n |-> i % 2]}
  ELSE IF n <= MaxData \/ kMinScore \in values THEN [1..n -> values]
  ELSE {[i \in 1..n |-> 0], [i \in 1..n |-> i % 2]}

-----------------------------------------------------------------------------
(* State *)

VARIABLES
  \* the caller's side: the Config, the dataset, the OpenMP team size
  config, metadata, num_threads,
  \* the values the caller's scores are made of
  score_values,
  \* the last GetSigmoid lookup made from outside a kernel: its input and the
  \* index of sigmoid_table_ it read
  sigmoid_lookup,
  \* the Java wrapper's side: the heap of blocks it allocated, the StringArray
  \* (or FeatureNames) object in use, the caller's out-handle, the last
  \* operation made with its arguments and result, the undefined operations
  \* executed so far
  heap, strings, out_handle, last_op, faults,
  \* one index followed through the int16_t vectors of a query: the vector it
  \* is in, the query's size, the value assigned and the value held
  index_probe,
  \* RankingObjective
  num_queries_, num_data_, sample_cnt_, label_, weights_, query_boundaries_,
  sample_candidates_, sample_candidates_boundaries_, rand_,
  \* LambdarankNDCG
  label_gain_, inverse_max_dcgs_, sigmoid_, norm_, truncation_level_,
  sigmoid_table_, min_sigmoid_input_, max_sigmoid_input_,
  sigmoid_table_idx_factor_,
  \* one GetGradients call: its arguments, the loop's next iteration, and
  \* per thread the position in its iteration and the iteration's locals
  score, gradients, hessians, next_query, pc, task,
  \* where the objective is in its life: "config", "constructed", "ready",
  \* "running", "fatal_ctor", "fatal_init"
  phase,
  \* bookkeeping: Init calls made, GetGradients calls returned, how the
  \* running call relates to the one before ("first", "repeat", "twin"),
  \* the call before (score, gradients, hessians), rand_ at the call's entry
  n_inits, calls, run_kind, prev, entry_rand

jni == <<heap, strings, out_handle, last_op, faults>>

env == <<config, metadata, num_threads, score_values, sigmoid_lookup, jni,
         index_probe>>

ranking == <<num_queries_, num_data_, sample_cnt_, label_, weights_,
             query_boundaries_, sample_candidates_,
             sample_candidates_boundaries_>>

lambdarank == <<label_gain_, inverse_max_dcgs_, sigmoid_, norm_,
                truncation_level_, sigmoid_table_, min_sigmoid_input_,
                max_sigmoid_input_, sigmoid_table_idx_factor_>>

call == <<score, gradients, hessians, next_query, pc, task>>

book == <<n_inits, calls, run_kind, prev, entry_rand>>

vars == <<env, ranking, rand_, lambdarank, call, phase, book>>

Threads == 1..num_threads

-----------------------------------------------------------------------------
(* RankingObjective::Init: the candidate index *)

\* a fault of line 57: the comparison is strict, equal labels are kept
IsCandidateLoose(cur_label, i, j) ==
  ~(i = j \/ At(cur_label, i) < At(cur_label, j))

\* line 57: j is kept for i unless i == j or label[i] <= label[j]
IsCandidate(cur_label, i, j) ==
  ~(i = j \/ At(cur_label, i) <= At(cur_label, j))

\* lines 55-62: the j pushed for document i, in the order of the loop
DocCandidates(cur_label, cnt, i) ==
  LET keep == SortedSeq({j \in 0..(cnt - 1) : IsCandidate(cur_label, i, j)})
  IN  [k \in 1..Len(keep) |-> ToInt16(keep[k])]

\* lines 54-65 for the documents i..cnt-1 of one query
RECURSIVE IndexQuery(_, _, _, _)
IndexQuery(idx, cur_label, cnt, i) ==
  IF i >= cnt THEN idx
  ELSE LET cur == DocCandidates(cur_label, cnt, i)
           back == idx.boundaries[Len(idx.boundaries)]
       IN  IndexQuery([candidates |-> idx.candidates \o cur,
                       boundaries |-> Append(idx.boundaries, back + Len(cur))],
                      cur_label, cnt, i + 1)

\* lines 51-66 for the queries q..num_queries-1
RECURSIVE IndexQueries(_, _, _, _)
IndexQueries(idx, label, qb, q) ==
  IF q >= Len(qb) - 1 THEN idx
  ELSE LET cnt == At(qb, q + 1) - At(qb, q)
       IN  IndexQueries(IndexQuery(idx, Slice(label, At(qb, q), cnt), cnt, 0),
                        label, qb, q + 1)

\* lines 48-50: the boundaries are cleared and restart at 0, the candidates
\* are appended to what sample_candidates_ holds
BuildIndex(old_candidates, label, qb) ==
  IndexQueries([candidates |-> old_candidates, boundaries |-> <<0>>],
               label, qb, 0)

-----------------------------------------------------------------------------
(* LambdarankNDCG::Init: the max-DCG cache and the sigmoid table *)

sigmoid_bins == 50

\* a fault of lines 187-189: the inverse is taken without the test
InverseUnguarded(max_dcg) == RDiv(One, max_dcg)

\* lines 183-189
InverseMaxDCG(max_dcg) ==
  IF RLess(Zero, max_dcg) THEN RDiv(One, max_dcg) ELSE max_dcg

InverseMaxDCGs(label, qb, gain, k) ==
  [q \in 1..(Len(qb) - 1) |->
     InverseMaxDCG(CalMaxDCGAtK(k, Slice(label, qb[q], qb[q + 1] - qb[q]), gain))]

\* a fault of line 358: the bound is halved twice
SigmoidBoundQuarter(min_input, sigmoid) ==
  RDiv(RDiv(min_input, Num(sigmoid)), Num(4))

\* line 358
SigmoidBound(min_input, sigmoid) == RDiv(RDiv(min_input, Num(sigmoid)), Num(2))

\* lines 362-363
SigmoidIdxFactor(min_input, max_input) ==
  RDiv(Num(sigmoid_bins), RSub(max_input, min_input))

\* lines 365-368
SigmoidTable(min_input, factor, sigmoid) ==
  [i \in 1..sigmoid_bins |->
     LET s == RAdd(RDiv(Num(i - 1), factor), min_input)
     IN  RDiv(One, RAdd(One, Exp(RMul(s, Num(sigmoid)))))]

\* lines 343-354
SigmoidIndex(x) ==
  RFloor(RMul(RSub(x, min_sigmoid_input_), sigmoid_table_idx_factor_))

GetSigmoid(x) ==
  IF RLeq(x, min_sigmoid_input_) THEN At(sigmoid_table_, 0)
  ELSE IF RLeq(max_sigmoid_input_, x) THEN At(sigmoid_table_, sigmoid_bins - 1)
  ELSE At(sigmoid_table_, SigmoidIndex(x))

\* lines 343-354, the index read for any double: a NaN fails both
\* comparisons and reaches the static_cast<size_t> of line 351, whose result
\* is undefined; sigmoid_bins stands for every index past the table
SigmoidLookups(x) ==
  IF RLeq(x, min_sigmoid_input_) THEN {0}
  ELSE IF RLeq(max_sigmoid_input_, x) THEN {sigmoid_bins - 1}
  ELSE IF IsNum(x) THEN {SigmoidIndex(x)}
  ELSE 0..sigmoid_bins

-----------------------------------------------------------------------------
(* RankingObjective::Sample *)

\* line 91: false is returned, and the unsampled kernel runs
SkipSample(cnt) == sample_cnt_ <= 0 \/ cnt <= sample_cnt_

\* line 95: vector::resize
Resize(buffer, cnt) ==
  [i \in 1..cnt |-> IF i <= Len(buffer) THEN buffer[i] ELSE <<>>]

\* a fault of line 97: the list is not cleared
KeepList(list) == list

\* line 97: vector::clear
Clear(list) == <<>>

\* lines 98-99: the slice of document offset + i
CandStart(d) == At(sample_candidates_boundaries_, d)
CandEnd(d) == At(sample_candidates_boundaries_, d + 1)

\* line 100: the whole slice is copied
CopyAll(d) == CandEnd(d) - CandStart(d) <= sample_cnt_

\* lines 101-103
CopiedCandidates(d) ==
  [k \in 1..(CandEnd(d) - CandStart(d)) |->
     At(sample_candidates_, CandStart(d) + k - 1)]

\* lines 106-108: sample holds the kept positions in ascending order
PickedCandidates(d, kept) ==
  LET sample == SortedSeq(kept)
  IN  [k \in 1..Len(sample) |-> At(sample_candidates_, CandStart(d) + sample[k])]

-----------------------------------------------------------------------------
(* LambdarankNDCG::GetGradientsForOneQueryInner *)

\* a fault of lines 204-207: the slice is left as the caller passed it
KeepOld(old, cnt) == old

\* lines 204-207: the slice is set to zero
ZeroInit(old, cnt) == Filled([i \in 1..cnt |-> Zero])

\* lines 209-215: the documents by descending score, ties in document order
SortedIdx(sc) ==
  LET n == Len(sc)
      before(a) == {b \in 0..(n - 1) :
                      At(sc, b) > At(sc, a) \/ (At(sc, b) = At(sc, a) /\ b < a)}
  IN  Filled([r \in 1..n |->
                CHOOSE a \in 0..(n - 1) : Cardinality(before(a)) = r - 1])

\* lines 218-221
SortedMapper(sorted_idx) ==
  Filled([d \in 1..Len(sorted_idx) |->
            ToInt16(CHOOSE i \in 0..(Len(sorted_idx) - 1) :
                      At(sorted_idx, i) = d - 1)])

\* lines 225-229
WorstIdx(sc, sorted_idx) ==
  LET last == Len(sc) - 1
  IN  IF last > 0 /\ At(sc, At(sorted_idx, last)) = kMinScore
      THEN last - 1 ELSE last

\* a fault of lines 246-249: the quotient is taken the other way round
FactorInverted(offset, high, sample_pair) ==
  RDiv(Num(Len(At(sample_pair, high))),
       Num(CandEnd(offset + high) - CandStart(offset + high)))

\* lines 246-249: the recovery factor of document high
Factor(offset, high, sample_pair) ==
  RDiv(Num(CandEnd(offset + high) - CandStart(offset + high)),
       Num(Len(At(sample_pair, high))))

\* a fault of line 300: the pair's lambda is added to low as it is to high
RaiseLow(old, p_lambda) == RAdd(old, p_lambda)

\* line 300
LowLambda(old, p_lambda) == RSub(old, p_lambda)

\* lines 283-287
DeltaPairNDCG(high_label, low_label, i, cur_j, delta_score, inverse_max_dcg, best_score, worst_score) ==
  LET dcg_gap == Num(At(label_gain_, high_label) - At(label_gain_, low_label))
      paired_discount == RAbs(RSub(GetDiscount(i), GetDiscount(cur_j)))
      Regular(delta) ==
        IF norm_ /\ high_label # low_label /\ best_score # worst_score
        THEN RDiv(delta, RAdd(<<1, 100>>, RAbs(delta_score)))
        ELSE delta
  IN  Regular(RMul(RMul(dcg_gap, paired_discount), inverse_max_dcg))

\* lines 289-303: the pair's lambda and hessian, added to the sums of high
\* and to the slices at low
UpdatePair(c, low, factor, acc, p, delta_pair_NDCG) ==
  LET l0 == RMul(p, RMul(RNeg(Num(sigmoid_)), delta_pair_NDCG))
      h0 == RMul(RMul(p, RSub(One, p)),
                 RMul(Num(sigmoid_ * sigmoid_), delta_pair_NDCG))
      Add(p_lambda, p_hessian) ==
        [acc EXCEPT
           !.high_sum_lambda = RAdd(@, p_lambda),
           !.high_sum_hessian = RAdd(@, p_hessian),
           !.lambdas[low + 1] = LowLambda(@, p_lambda),
           !.hessians[low + 1] = RAdd(@, p_hessian),
           !.sum_lambdas = RSub(@, RMul(Num(2), p_lambda))]
  IN  IF c.sample THEN Add(RMul(l0, factor), RMul(h0, factor))
      ELSE Add(l0, h0)

\* lines 256-303: one turn of the inner loop, for rank i and position j
\* c: the query (sample, offset, cnt, sample_pair, label, score, sorted_idx,
\* sorted_mapper, inverse_max_dcg, best_score, worst_score)
\* acc: lambdas, hessians, high_sum_lambda, high_sum_hessian, sum_lambdas
PairStep(c, i, j, factor, acc) ==
  LET high == At(c.sorted_idx, i)
      cur_j == IF c.sample
               THEN At(c.sorted_mapper, At(At(c.sample_pair, high), j))
               ELSE j
      low == At(c.sorted_idx, cur_j)
      high_label == At(c.label, high)
      low_label == At(c.label, low)
      delta_score == Num(At(c.score, high) - At(c.score, low))
  IN  IF ~c.sample /\ i = cur_j THEN acc
      ELSE IF high_label <= low_label \/ At(c.score, low) = kMinScore THEN acc
      ELSE UpdatePair(c, low, factor, acc, GetSigmoid(delta_score),
                      DeltaPairNDCG(high_label, low_label, i, cur_j,
                                    delta_score, c.inverse_max_dcg,
                                    c.best_score, c.worst_score))

RECURSIVE InnerLoop(_, _, _, _, _, _)
InnerLoop(c, i, j, loop_cnt, factor, acc) ==
  IF j >= loop_cnt THEN acc
  ELSE InnerLoop(c, i, j + 1, loop_cnt, factor, PairStep(c, i, j, factor, acc))

\* a fault of lines 306-307: the sums of high are subtracted
SubtractHigh(a, high) ==
  [a EXCEPT !.lambdas[high + 1] = RSub(@, a.high_sum_lambda),
            !.hessians[high + 1] = RSub(@, a.high_sum_hessian)]

\* lines 305-307: the sums of high are added to the slices at high
AddHigh(a, high) ==
  [a EXCEPT !.lambdas[high + 1] = RAdd(@, a.high_sum_lambda),
            !.hessians[high + 1] = RAdd(@, a.high_sum_hessian)]

\* lines 232-308: the outer loop from rank i on
RECURSIVE OuterLoop(_, _, _)
OuterLoop(c, i, acc) ==
  IF i >= c.cnt THEN acc
  ELSE
    LET high == At(c.sorted_idx, i)
        factor == IF c.sample THEN Factor(c.offset, high, c.sample_pair)
                  ELSE One
        loop_cnt == IF c.sample THEN Len(At(c.sample_pair, high)) ELSE c.cnt
    IN  IF At(c.score, high) = kMinScore THEN OuterLoop(c, i + 1, acc)
        ELSE OuterLoop(c, i + 1,
               AddHigh(InnerLoop(c, i, 0, loop_cnt, factor,
                                 [acc EXCEPT !.high_sum_lambda = Zero,
                                             !.high_sum_hessian = Zero]),
                       high))

\* lines 209-229: what the pair loops read of the query
QueryOf(sample, query_id, offset, cnt, sample_pair, label, sc, sorted_idx) ==
  [sample |-> sample, offset |-> offset, cnt |-> cnt,
   sample_pair |-> sample_pair, label |-> label, score |-> sc,
   sorted_idx |-> sorted_idx,
   sorted_mapper |-> IF sample THEN SortedMapper(sorted_idx) ELSE <<>>,
   inverse_max_dcg |-> At(inverse_max_dcgs_, query_id),
   best_score |-> At(sc, At(sorted_idx, 0)),
   worst_score |-> At(sc, At(sorted_idx, WorstIdx(sc, sorted_idx)))]

\* lines 204-207 and 230: the slices and the sums before the pair loops
ZeroAcc(lams, hess, cnt) ==
  [lambdas |-> ZeroInit(lams, cnt), hessians |-> ZeroInit(hess, cnt),
   high_sum_lambda |-> Zero, high_sum_hessian |-> Zero, sum_lambdas |-> Zero]

\* lines 201-308: the slices and sum_lambdas after the pair loops
Accumulate(sample, query_id, offset, cnt, sample_pair, label, sc, lams, hess) ==
  OuterLoop(QueryOf(sample, query_id, offset, cnt, sample_pair, label, sc,
                    SortedIdx(sc)),
            0, ZeroAcc(lams, hess, cnt))

\* lines 309-315
NormFactor(sum_lambdas) == RDiv(Log2(RAdd(One, sum_lambdas)), sum_lambdas)

Scale(values, norm_factor) ==
  Filled([i \in 1..Len(values) |-> RMul(values[i], norm_factor)])

Normalize(values, sum_lambdas) ==
  IF norm_ /\ RLess(Zero, sum_lambdas)
  THEN Scale(values, NormFactor(sum_lambdas))
  ELSE values

\* lines 317-322 and 464-469
ApplyWeights(values, offset) ==
  IF weights_ # <<>>
  THEN Filled([i \in 1..Len(values) |->
                 RMul(values[i], weights_[offset + i])])
  ELSE values

-----------------------------------------------------------------------------
(* RankXENDCG::GetGradientsForOneQueryInner *)

\* lines 490-492
phi(l, g) == RSub(Num(Pow2(l)), g)

\* lines 434-440: the first-order terms
L1s(phis, sum_labels, rho) ==
  Filled([i \in 1..Len(phis) |->
            RAdd(RDiv(RNeg(phis[i]), sum_labels), rho[i])])

\* lines 441-461: the sum over the other documents of term / (1 - rho)
OthersSum(terms, rho) ==
  Filled([i \in 1..Len(terms) |->
            RSum([j \in 1..Len(terms) |->
                    IF i = j THEN Zero
                    ELSE RDiv(terms[j], RSub(One, rho[j]))])])

Products(rho, terms) ==
  Filled([i \in 1..Len(terms) |-> RMul(rho[i], terms[i])])

\* lines 462-469: the lambdas and hessians of the query, weighted
XeOutputs(offset, rho, L1, L2, L3) ==
  [lambdas |->
     ApplyWeights(Filled([i \in 1..Len(rho) |->
                            RAdd(RAdd(L1[i], RMul(rho[i], L2[i])),
                                 RMul(rho[i], L3[i]))]), offset),
   hessians |->
     ApplyWeights(Filled([i \in 1..Len(rho) |->
                            RMul(rho[i], RSub(One, rho[i]))]), offset)]

XeTerms(offset, rho, L1) ==
  XeOutputs(offset, rho, L1, OthersSum(L1, rho),
            OthersSum(Products(rho, OthersSum(L1, rho)), rho))

\* lines 425-432: the degenerate branch returns with the slices as they were
XeBranch(offset, rho, phis, sum_labels, lams, hess) ==
  IF RLess(RAbs(sum_labels), kEpsilon)
  THEN [lambdas |-> lams, hessians |-> hess]
  ELSE XeTerms(offset, rho, L1s(phis, sum_labels, rho))

XePhis(offset, rho, phis, lams, hess) ==
  XeBranch(offset, rho, phis, RSum(phis), lams, hess)

\* lines 416-469: the slices after the kernel
XeKernel(offset, cnt, label, sc, gammas, lams, hess) ==
  XePhis(offset, Softmax(sc),
         Filled([i \in 1..cnt |-> phi(label[i], gammas[i])]), lams, hess)

-----------------------------------------------------------------------------
(* Construction and Init *)

\* a fault of line 28: the generator is seeded from the Config or from
\* elsewhere
RandUnseeded(seed) == {seed % RandMod, (seed + 1) % RandMod}

\* line 28: rand_(config.objective_seed); the set of states rand_ may have
RandInit(seed) == {seed % RandMod}

\* a fault of line 43: the test for missing boundaries never fires
NeverMissing(qb) == FALSE

\* line 43
NoQueryInformation(qb) == qb = <<>>

\* line 168
BadSigmoid(sigmoid) == sigmoid <= 0

\* the locals of a loop iteration that has not started; the thread's
\* firstprivate sampled_pair lives across its iterations
IdleTask(sampled_pair) ==
  [query_id |-> 0, start |-> 0, cnt |-> 0, is_sampled |-> FALSE,
   sampled_pair |-> sampled_pair, i |-> 0, kept |-> {}, r |-> 0, x |-> 0,
   gammas |-> <<>>, sum_lambdas |-> Zero]

NoLookup == [x |-> Zero, index |-> -1]

\* the null pointer, and the value of a handle the caller never initialised
Null == 0

Unset == -1

NoObject == [impl |-> "none", self |-> Null, n |-> 0, size |-> 0, array |-> Null]

NoOperation == [op |-> "none"]

NoProbe == [at |-> "none", cnt |-> 0, value |-> 0, stored |-> 0, valid |-> TRUE]

NoCall == [score |-> <<>>, gradients |-> <<>>, hessians |-> <<>>,
           entry_rand |-> 0]

InitWith(configs, metadatas, threads, values) ==
  /\ config \in configs
  /\ score_values = values
  /\ metadata \in metadatas
  /\ num_threads = threads
  /\ sigmoid_lookup = NoLookup
  /\ heap = <<>> /\ strings = NoObject /\ out_handle = Unset
  /\ last_op = NoOperation /\ faults = {}
  /\ index_probe = NoProbe
  /\ num_queries_ = 0 /\ num_data_ = 0 /\ sample_cnt_ = 0
  /\ label_ = <<>> /\ weights_ = <<>> /\ query_boundaries_ = <<>>
  /\ sample_candidates_ = <<>> /\ sample_candidates_boundaries_ = <<>>
  /\ rand_ = 0
  /\ label_gain_ = <<>> /\ inverse_max_dcgs_ = <<>>
  /\ sigmoid_ = 0 /\ norm_ = FALSE /\ truncation_level_ = 0
  /\ sigmoid_table_ = <<>>
  /\ min_sigmoid_input_ = <<-50, 1>> /\ max_sigmoid_input_ = <<50, 1>>
  /\ sigmoid_table_idx_factor_ = Zero
  /\ score = <<>> /\ gradients = <<>> /\ hessians = <<>>
  /\ next_query = 0
  /\ pc = [t \in 1..threads |-> "idle"]
  /\ task = [t \in 1..threads |-> IdleTask(<<>>)]
  /\ phase = "config"
  /\ n_inits = 0 /\ calls = 0 /\ run_kind = "first"
  /\ prev = NoCall /\ entry_rand = 0

SmallMetadatas == UNION {Metadatas(n) : n \in 1..MaxData}

\* the datasets of the two-thread specification: the largest, unweighted
TeamMetadatas == {m \in Metadatas(MaxData) : m.weights = <<>>}

TeamConfigs ==
  {c \in LambdarankConfigs \cup XendcgConfigs : c.label_gain = <<>>}

Init == InitWith(TeamConfigs, TeamMetadatas, 2, {0, 1})

\* lines 27-28, 157-171, 402
Construct ==
  /\ phase = "config"
  /\ rand_' \in RandInit(config.objective_seed)
  /\ sample_cnt_' = config.pair_sample
  /\ IF config.kind = "lambdarank"
     THEN /\ sigmoid_' = config.sigmoid
          /\ norm_' = config.lambdamart_norm
          /\ label_gain_' = DefaultLabelGain(config.label_gain)
          /\ truncation_level_' = lambdarank_truncation_level
          /\ sigmoid_table_' = <<>>
          /\ inverse_max_dcgs_' = <<>>
          /\ phase' = IF BadSigmoid(config.sigmoid) THEN "fatal_ctor"
                      ELSE "constructed"
          /\ UNCHANGED <<min_sigmoid_input_, max_sigmoid_input_,
                         sigmoid_table_idx_factor_>>
     ELSE /\ phase' = "constructed"
          /\ UNCHANGED lambdarank
  /\ UNCHANGED <<env, num_queries_, num_data_, label_, weights_,
                 query_boundaries_, sample_candidates_,
                 sample_candidates_boundaries_, call, book>>

\* lines 178-193 after RankingObjective::Init has returned
LambdarankInit ==
  IF config.kind = "lambdarank"
  THEN LET lo == SigmoidBound(min_sigmoid_input_, sigmoid_)
           hi == RNeg(lo)
           factor == SigmoidIdxFactor(lo, hi)
       IN  /\ inverse_max_dcgs_' =
                InverseMaxDCGs(metadata.label, metadata.query_boundaries,
                               label_gain_, truncation_level_)
           /\ min_sigmoid_input_' = lo
           /\ max_sigmoid_input_' = hi
           /\ sigmoid_table_idx_factor_' = factor
           /\ sigmoid_table_' = SigmoidTable(lo, factor, sigmoid_)
           /\ UNCHANGED <<label_gain_, sigmoid_, norm_, truncation_level_>>
  ELSE UNCHANGED lambdarank

\* lines 34-68 and 178-193: Init(metadata, num_data) on the objective as it is
InitHandler ==
  /\ num_data_' = Len(metadata.label)
  /\ label_' = metadata.label
  /\ IF ~CheckLabel(metadata.label)
     THEN /\ phase' = "fatal_init"
          /\ UNCHANGED <<weights_, query_boundaries_, num_queries_,
                         sample_candidates_, sample_candidates_boundaries_,
                         lambdarank, n_inits>>
     ELSE /\ weights_' = metadata.weights
          /\ query_boundaries_' = metadata.query_boundaries
          /\ IF NoQueryInformation(metadata.query_boundaries)
             THEN /\ phase' = "fatal_init"
                  /\ UNCHANGED <<num_queries_, sample_candidates_,
                                 sample_candidates_boundaries_, lambdarank,
                                 n_inits>>
             ELSE /\ num_queries_' = Len(metadata.query_boundaries) - 1
                  /\ IF sample_cnt_ > 0
                     THEN LET idx == BuildIndex(sample_candidates_,
                                                metadata.label,
                                                metadata.query_boundaries)
                          IN  /\ sample_candidates_' = idx.candidates
                              /\ sample_candidates_boundaries_' = idx.boundaries
                     ELSE UNCHANGED <<sample_candidates_,
                                      sample_candidates_boundaries_>>
                  /\ LambdarankInit
                  /\ phase' = "ready"
                  /\ n_inits' = n_inits + 1
  /\ UNCHANGED <<env, sample_cnt_, rand_, call, calls, run_kind, prev,
                 entry_rand>>

\* Init is repeated only before the first call
InitCall ==
  /\ phase \in {"constructed", "ready"}
  /\ n_inits < MaxInits
  /\ calls = 0
  /\ InitHandler

\* Init called again, with the same dataset, on an objective that is ready
Reinit ==
  /\ phase = "ready"
  /\ n_inits >= 1 /\ n_inits < MaxInits + MaxReinits
  /\ calls = 0
  /\ InitHandler

-----------------------------------------------------------------------------
(* GetGradients: the call, the parallel loop over the queries, the return *)

Splice(buffer, start, values) ==
  [k \in 1..Len(buffer) |->
     IF start < k /\ k <= start + Len(values) THEN values[k - start]
     ELSE buffer[k]]

\* line 72, and the caller's buffers, whose content is not known
BeginCall(sc, kind, r) ==
  /\ phase = "ready"
  /\ phase' = "running"
  /\ score' = sc
  /\ gradients' = [i \in 1..num_data_ |-> Stale]
  /\ hessians' = [i \in 1..num_data_ |-> Stale]
  /\ next_query' = 0
  /\ pc' = [t \in Threads |-> "idle"]
  /\ task' = [t \in Threads |-> IdleTask(<<>>)]
  /\ rand_' = r
  /\ entry_rand' = r
  /\ run_kind' = kind
  /\ prev' = IF calls = 0 THEN NoCall
             ELSE [score |-> score, gradients |-> gradients,
                   hessians |-> hessians, entry_rand |-> entry_rand]
  /\ UNCHANGED <<env, ranking, lambdarank, n_inits, calls>>

\* the first call on the objective
Call ==
  /\ calls = 0
  /\ \E sc \in ScoreVectors(config.kind, num_data_, score_values) :
       BeginCall(sc, "first", rand_)

\* the next call on the same objective, with the same scores
Repeat ==
  /\ calls > 0 /\ calls < MaxCalls
  /\ BeginCall(score, "repeat", rand_)

\* the score a document is moved to in a second run: 0 is raised to 1, and
\* 1 is dropped to the lowest score the objective's class knows
Altered(v) ==
  IF v = 0 THEN 1 ELSE IF config.kind = "lambdarank" THEN kMinScore ELSE 0

\* the scores a second run is given: those of the first, or those with one
\* document's score altered
TwinScores(sc) ==
  {sc} \cup {[sc EXCEPT ![d] = Altered(sc[d])] : d \in 1..Len(sc)}

\* the call on a second objective, constructed from the same Config and
\* initialised as the first was
TwinCall ==
  /\ calls > 0 /\ calls < MaxCalls
  /\ \E sc \in TwinScores(score), r \in RandInit(config.objective_seed) :
       BeginCall(sc, "twin", r)

\* the kernel of the objective's class starts with its gamma draws or its
\* pair loops
KernelEntry == IF config.kind = "rank_xendcg" THEN "gamma_load" ELSE "kernel"

\* lines 74-78 and 95: a thread takes the next iteration of the loop
StartTask(t) ==
  /\ phase = "running" /\ pc[t] = "idle"
  /\ next_query < num_queries_
  /\ LET start == At(query_boundaries_, next_query)
         cnt == At(query_boundaries_, next_query + 1) - start
         sampled == ~SkipSample(cnt)
     IN  /\ task' = [task EXCEPT ![t] =
                       [@ EXCEPT !.query_id = next_query, !.start = start,
                                 !.cnt = cnt, !.is_sampled = sampled,
                                 !.sampled_pair =
                                   IF sampled THEN Resize(@, cnt) ELSE @]]
         /\ pc' = [pc EXCEPT ![t] = IF sampled THEN "sample" ELSE KernelEntry]
  /\ next_query' = next_query + 1
  /\ UNCHANGED <<env, ranking, rand_, lambdarank, score, gradients, hessians,
                 phase, book>>

\* after document i of Sample's loop
AfterDoc(t, list) ==
  /\ task' = [task EXCEPT ![t] =
                [@ EXCEPT !.sampled_pair[task[t].i + 1] = Clear(@) \o list,
                          !.i = @ + 1, !.kept = {}, !.r = 0, !.x = 0]]
  /\ pc' = [pc EXCEPT ![t] = IF task[t].i + 1 = task[t].cnt THEN KernelEntry
                             ELSE "sample"]

\* lines 96-105: document i of Sample's loop, up to the call of rand_.Sample
SampleDoc(t) ==
  /\ pc[t] = "sample"
  /\ LET d == task[t].start + task[t].i
     IN  IF CopyAll(d)
         THEN AfterDoc(t, CopiedCandidates(d))
         ELSE /\ task' = [task EXCEPT ![t] =
                            [@ EXCEPT !.kept = {},
                                      !.r = (CandEnd(d) - CandStart(d))
                                              - sample_cnt_]]
              /\ pc' = [pc EXCEPT ![t] = "sample_load"]
  /\ UNCHANGED <<env, ranking, rand_, lambdarank, score, gradients, hessians,
                 next_query, phase, book>>

\* a draw reads the generator's state ...
RandLoad(t) ==
  /\ pc[t] \in {"sample_load", "gamma_load"}
  /\ task' = [task EXCEPT ![t].x = rand_]
  /\ pc' = [pc EXCEPT ![t] = IF pc[t] = "sample_load" THEN "sample_store"
                             ELSE "gamma_store"]
  /\ UNCHANGED <<env, ranking, rand_, lambdarank, score, gradients, hessians,
                 next_query, phase, book>>

\* ... and writes the next one: a draw of rand_.Sample (lines 105-108)
SampleStore(t) ==
  /\ pc[t] = "sample_store"
  /\ LET d == task[t].start + task[t].i
         x == RandNext(task[t].x)
         kept == SampleInsert(task[t].kept, NextInt(x, 0, task[t].r + 1),
                              task[t].r)
     IN  /\ rand_' = x
         /\ IF task[t].r + 1 = CandEnd(d) - CandStart(d)
            THEN AfterDoc(t, PickedCandidates(d, kept))
            ELSE /\ task' = [task EXCEPT ![t] =
                               [@ EXCEPT !.kept = kept, !.r = @ + 1, !.x = 0]]
                 /\ pc' = [pc EXCEPT ![t] = "sample_load"]
  /\ UNCHANGED <<env, ranking, lambdarank, score, gradients, hessians,
                 next_query, phase, book>>

\* ... a gamma of RankXENDCG (lines 420-423)
GammaStore(t) ==
  /\ pc[t] = "gamma_store"
  /\ LET x == RandNext(task[t].x)
     IN  /\ rand_' = x
         /\ task' = [task EXCEPT ![t] =
                       [@ EXCEPT !.gammas = Append(@, NextFloat(x)), !.x = 0]]
         /\ pc' = [pc EXCEPT ![t] =
                     IF Len(task[t].gammas) + 1 = task[t].cnt THEN "kernel"
                     ELSE "gamma_load"]
  /\ UNCHANGED <<env, ranking, lambdarank, score, gradients, hessians,
                 next_query, phase, book>>

TaskLabel(t) == Slice(label_, task[t].start, task[t].cnt)
TaskScore(t) == Slice(score, task[t].start, task[t].cnt)
TaskLambdas(t) == Slice(gradients, task[t].start, task[t].cnt)
TaskHessians(t) == Slice(hessians, task[t].start, task[t].cnt)

\* the slices of thread t's query are stored, the iteration moves on
StoreSlices(t, lams, hess, next_pc) ==
  /\ gradients' = Splice(gradients, task[t].start, lams)
  /\ hessians' = Splice(hessians, task[t].start, hess)
  /\ pc' = [pc EXCEPT ![t] = next_pc]

StoreAccumulated(t, acc) ==
  /\ StoreSlices(t, acc.lambdas, acc.hessians, "norm")
  /\ task' = [task EXCEPT ![t].sum_lambdas = acc.sum_lambdas]

\* LambdarankNDCG, lines 201-308
LambdarankKernel(t) ==
  /\ pc[t] = "kernel" /\ config.kind = "lambdarank"
  /\ StoreAccumulated(t, Accumulate(task[t].is_sampled, task[t].query_id,
                                    task[t].start, task[t].cnt,
                                    task[t].sampled_pair, TaskLabel(t),
                                    TaskScore(t), TaskLambdas(t),
                                    TaskHessians(t)))
  /\ UNCHANGED <<env, ranking, rand_, lambdarank, score, next_query, phase,
                 book>>

\* LambdarankNDCG, lines 309-315
LambdarankNorm(t) ==
  /\ pc[t] = "norm"
  /\ gradients' = Splice(gradients, task[t].start,
                         Normalize(TaskLambdas(t), task[t].sum_lambdas))
  /\ hessians' = Splice(hessians, task[t].start,
                        Normalize(TaskHessians(t), task[t].sum_lambdas))
  /\ pc' = [pc EXCEPT ![t] = "weights"]
  /\ UNCHANGED <<env, ranking, rand_, lambdarank, score, next_query, task,
                 phase, book>>

\* LambdarankNDCG, lines 316-323; the iteration ends
LambdarankWeights(t) ==
  /\ pc[t] = "weights"
  /\ gradients' = Splice(gradients, task[t].start,
                         ApplyWeights(TaskLambdas(t), task[t].start))
  /\ hessians' = Splice(hessians, task[t].start,
                        ApplyWeights(TaskHessians(t), task[t].start))
  /\ pc' = [pc EXCEPT ![t] = "idle"]
  /\ task' = [task EXCEPT ![t] = IdleTask(@.sampled_pair)]
  /\ UNCHANGED <<env, ranking, rand_, lambdarank, score, next_query, phase,
                 book>>

StoreKernel(t, out) == StoreSlices(t, out.lambdas, out.hessians, "idle")

\* RankXENDCG, lines 416-470 after the gamma draws; the iteration ends
XendcgKernel(t) ==
  /\ pc[t] = "kernel" /\ config.kind = "rank_xendcg"
  /\ StoreKernel(t, XeKernel(task[t].start, task[t].cnt, TaskLabel(t),
                             TaskScore(t), task[t].gammas, TaskLambdas(t),
                             TaskHessians(t)))
  /\ task' = [task EXCEPT ![t] = IdleTask(@.sampled_pair)]
  /\ UNCHANGED <<env, ranking, rand_, lambdarank, score, next_query, phase,
                 book>>

\* line 86-87: the loop is over, every thread has left it
Return ==
  /\ phase = "running"
  /\ next_query = num_queries_
  /\ \A t \in Threads : pc[t] = "idle"
  /\ phase' = "ready"
  /\ calls' = calls + 1
  /\ task' = [t \in Threads |-> IdleTask(<<>>)]
  /\ UNCHANGED <<env, ranking, rand_, lambdarank, score, gradients, hessians,
                 next_query, pc, n_inits, run_kind, prev, entry_rand>>

Next ==
  \/ Construct
  \/ InitCall
  \/ Call
  \/ Repeat
  \/ TwinCall
  \/ \E t \in Threads : StartTask(t)
  \/ \E t \in Threads : SampleDoc(t)
  \/ \E t \in Threads : RandLoad(t)
  \/ \E t \in Threads : SampleStore(t)
  \/ \E t \in Threads : GammaStore(t)
  \/ \E t \in Threads : LambdarankKernel(t)
  \/ \E t \in Threads : LambdarankNorm(t)
  \/ \E t \in Threads : LambdarankWeights(t)
  \/ \E t \in Threads : XendcgKernel(t)
  \/ Return

Spec == Init /\ [][Next]_vars

\* the doubles GetSigmoid is probed with: below, at, inside, and above the
\* table's range, and a NaN (the difference of two infinite scores)
SigmoidInputs ==
  {NaN, Zero, One, <<-1, 3>>,
   RSub(min_sigmoid_input_, One), min_sigmoid_input_,
   RAdd(min_sigmoid_input_, <<1, 1000>>),
   RSub(max_sigmoid_input_, <<1, 1000>>), max_sigmoid_input_,
   RAdd(max_sigmoid_input_, One)}

\* lines 343-354: GetSigmoid is called on an initialised LambdarankNDCG
GetSigmoidCall ==
  /\ phase = "ready" /\ config.kind = "lambdarank"
  /\ \E x \in SigmoidInputs : \E k \in SigmoidLookups(x) :
       sigmoid_lookup' = [x |-> x, index |-> k]
  /\ UNCHANGED <<config, metadata, num_threads, score_values, jni,
                 index_probe, ranking, rand_, lambdarank, call, phase, book>>

SigmoidConfigs ==
  [kind : {"lambdarank"}, objective_seed : {0}, pair_sample : {0},
   sigmoid : 0..MaxSigmoid, lambdamart_norm : {FALSE}, label_gain : {<<>>}]

InitSigmoid == InitWith(SigmoidConfigs, SmallMetadatas, 1, {0, 1})

NextSigmoid == Construct \/ InitCall \/ GetSigmoidCall

SpecSigmoid == InitSigmoid /\ [][NextSigmoid]_vars

\* an objective whose Init is called up to 1 + MaxReinits times before its
\* first GetGradients call: every configuration, every small dataset
ReinitConfigs == LambdarankConfigs \cup XendcgConfigs \cup SigmoidConfigs

InitReinit == InitWith(ReinitConfigs, SmallMetadatas, 1, {0, 1})

NextReinit == Construct \/ InitCall \/ Reinit

SpecReinit == InitReinit /\ [][NextReinit]_vars

InitSeq ==
  InitWith(LambdarankConfigs \cup XendcgConfigs, SmallMetadatas, 1, {0, 1})

SpecSeq == InitSeq /\ [][Next]_vars

\* a dataset of two queries that are both larger than the sampling threshold,
\* the second smaller than the first, for one thread; the documents of a
\* query are listed by descending label
SampleData == 7

SamplingConfigs ==
  [kind : {"lambdarank", "rank_xendcg"}, objective_seed : 0..MaxSeed,
   pair_sample : {0, 1, 2}, sigmoid : {1}, lambdamart_norm : {FALSE},
   label_gain : {<<>>}]

SamplingLabels ==
  {l \in [1..SampleData -> 0..MaxLabel] :
     \A i \in 1..(SampleData - 1) : i # 4 => l[i] >= l[i + 1]}

SamplingMetadatas ==
  [label : SamplingLabels, weights : {<<>>},
   query_boundaries : {<<0, 4, SampleData>>}]

InitSampling == InitWith(SamplingConfigs, SamplingMetadatas, 1, {0, 1})

SpecSampling == InitSampling /\ [][Next]_vars

\* one query of MaxData + 1 documents listed by descending label, with
\* scores that may be the sentinel, for one thread
KernelConfigs ==
  [kind : {"lambdarank"}, objective_seed : {0}, pair_sample : {0, 1},
   sigmoid : {1}, lambdamart_norm : BOOLEAN, label_gain : {<<>>}]
  \cup
  [kind : {"rank_xendcg"}, objective_seed : {0}, pair_sample : {1},
   sigmoid : {1}, lambdamart_norm : {FALSE}, label_gain : {<<>>}]

KernelMetadatas ==
  {m \in Metadatas(MaxData + 1) :
     /\ m.query_boundaries = <<0, MaxData + 1>>
     /\ \A i \in 1..MaxData : m.label[i] >= m.label[i + 1]
     /\ m.label[1] >= 0}

InitKernel == InitWith(KernelConfigs, KernelMetadatas, 1, {0, 1, kMinScore})

SpecKernel == InitKernel /\ [][Next]_vars

\* ---------------------------------------------------------------------------
\* The string arrays of the Java wrapper (swig/char_array_helpers.i and
\* StringArray.hpp).  A block of the heap is a record: what it holds, how many
\* times it was deleted (0: live), and its cells: the pointers of a pointer
\* array, the bytes of a string.  A pointer is the block's index in heap.
\* ---------------------------------------------------------------------------

\* an uninitialised byte or pointer cell
Garbage == -2

Block(kind, data) == [kind |-> kind, frees |-> 0, data |-> data]

\* new / new[]: the block allocated is the last of the heap returned
New(h, kind, data) == Append(h, Block(kind, data))

\* delete / delete[]: nothing for the null pointer; a wild pointer is an
\* undefined operation the heap does not record
Delete(h, p) ==
  IF p = Null THEN h
  ELSE IF p \in 1..Len(h) THEN [h EXCEPT ![p].frees = @ + 1]
  ELSE h

RECURSIVE DeleteEach(_, _)
DeleteEach(h, ptrs) ==
  IF ptrs = <<>> THEN h
  ELSE DeleteEach(Delete(h, Head(ptrs)), Tail(ptrs))

Cells(k, v) == Filled([i \in 1..k |-> v])

\* the byte strings handed to setitem: 'a' (97) and 'b' (98) repeated
Contents == {Cells(k, ch) : k \in 0..MaxContent, ch \in {97, 98}}

\* the allocation loop the four classes share: elements i..n of pointer array
\* a get a string of the given number of bytes each; allocation number fail_at
\* of the loop fails (none when it is not in i..n)
RECURSIVE FillFrom(_, _, _, _, _, _)
FillFrom(h, a, i, n, bytes, fail_at) ==
  IF i > n THEN [heap |-> h, failed |-> FALSE]
  ELSE IF i = fail_at THEN [heap |-> h, failed |-> TRUE]
  ELSE LET h1 == New(h, "string", Cells(bytes, Garbage))
       IN FillFrom([h1 EXCEPT ![a].data[i] = Len(h1)], a, i + 1, n, bytes,
                   fail_at)

\* StringArray.hpp
cleanup_elements(h, a, size) == DeleteEach(h, SubSeq(h[a].data, 1, size))

\* StringArray.hpp: allocation 1 is the pointer array, 1 + i the i-th string;
\* either failure returns the null pointer
new_string_array(h, n, size, fail) ==
  IF fail = 1 THEN [heap |-> h, ptr |-> Null, threw |-> FALSE]
  ELSE LET h1 == New(h, "array", Cells(n + 1, Null))
           a == Len(h1)
           r == FillFrom(h1, a, 1, n, size + 1, fail - 1)
       IN IF r.failed
          THEN [heap |-> cleanup_elements(r.heap, a, n + 1), ptr |-> Null,
                threw |-> FALSE]
          ELSE [heap |-> r.heap, ptr |-> a, threw |-> FALSE]

\* char_array_helpers.i, the vector-based StringArray
release_strings(h, a) == DeleteEach(h, h[a].data)

\* the vector-based constructor: the vector of n + 1 null pointers, then
\* _allocate_strings; a failure releases the strings and throws, and the
\* unwinding destroys the vector
VectorStringArray(h, n, size, fail) ==
  IF fail = 1 THEN [heap |-> h, ptr |-> Null, threw |-> TRUE]
  ELSE LET h1 == New(h, "array", Cells(n + 1, Null))
           a == Len(h1)
           r == FillFrom(h1, a, 1, n, size + 1, fail - 1)
       IN IF r.failed
          THEN [heap |-> Delete(release_strings(r.heap, a), a), ptr |-> Null,
                threw |-> TRUE]
          ELSE [heap |-> r.heap, ptr |-> a, threw |-> FALSE]

\* char_array_helpers.i, custom_new_string_array and the first StringArray's
\* new_string_array: plain new, so that a failure throws out of the loop with
\* what was allocated left as it is; the first StringArray has one slot more,
\* set to null, and one byte more in each string
PlainStringArray(h, n, size, fail, extra) ==
  IF fail = 1 THEN [heap |-> h, ptr |-> Null, threw |-> TRUE]
  ELSE LET h1 == New(h, "array", Cells(n + extra, Garbage))
           a == Len(h1)
           r == FillFrom(h1, a, 1, n, size + extra, fail - 1)
       IN IF r.failed THEN [heap |-> r.heap, ptr |-> Null, threw |-> TRUE]
          ELSE [heap |-> IF extra = 1
                         THEN [r.heap EXCEPT ![a].data[n + 1] = Null]
                         ELSE r.heap,
                ptr |-> a, threw |-> FALSE]

\* the classes: "part" is StringArray.hpp, "vector" the last StringArray of
\* char_array_helpers.i, "plain" its first StringArray, "names" FeatureNames
Impls == {"part", "vector", "plain", "names"}

Members(impl, h, n, size, fail) ==
  CASE impl = "part" -> new_string_array(h, n, size, fail)
    [] impl = "vector" -> VectorStringArray(h, n, size, fail)
    [] impl = "plain" -> PlainStringArray(h, n, size, fail, 1)
    [] impl = "names" -> PlainStringArray(h, n, size, fail, 0)

\* new StringArray(n, size) / new FeatureNames(n, size): allocation 1 is the
\* object, the next ones the constructor's; a constructor that throws has its
\* object's memory released by the new expression
NewObject(impl, h, n, size, fail) ==
  IF fail = 1 THEN [heap |-> h, object |-> NoObject, threw |-> TRUE]
  ELSE LET h1 == New(h, "object", <<>>)
           self == Len(h1)
           r == Members(impl, h1, n, size, fail - 1)
       IN IF r.threw
          THEN [heap |-> Delete(r.heap, self), object |-> NoObject,
                threw |-> TRUE]
          ELSE [heap |-> r.heap, threw |-> FALSE,
                object |-> [impl |-> impl, self |-> self, n |-> n,
                            size |-> size, array |-> r.ptr]]

\* the destructor's work and the release of the object: delete_string_array
\* and custom_delete_string_array index the pointer array n times and delete
\* it, the vector-based class releases its strings and its vector
Destroyed(h, o) ==
  LET a == o.array
      elements == IF o.impl = "vector" THEN h[a].data
                  ELSE IF a = Null THEN <<>>
                  ELSE SubSeq(h[a].data, 1, o.n)
  IN Delete(Delete(DeleteEach(h, elements), a), o.self)

\* a destructor that indexes a null pointer array
DestroyFaults(o) ==
  IF o.impl # "vector" /\ o.array = Null /\ o.n > 0 THEN {"null_deref"}
  ELSE {}

\* everything of the ranking objectives and their caller
objective == <<config, metadata, num_threads, score_values, sigmoid_lookup,
               index_probe, ranking, rand_, lambdarank, call, phase, book>>

\* an object is in use from its construction to its release
InUse == strings # NoObject

\* what an undefined operation can lead to: the process ends, or it goes on
Outcomes(undefined) == IF undefined THEN {"crash", "continue"} ELSE {"continue"}

\* the process ended in an undefined operation of the named function
Crashed(during) == [op |-> "crashed", during |-> during]

\* new StringArray(n, size) / new FeatureNames(n, size) made by the caller;
\* allocation number fail fails (0: none)
NewStringArray ==
  /\ last_op.op = "none"
  /\ \E impl \in Impls, n \in 0..MaxElements, size \in 0..MaxStringSize :
       \E fail \in 0..n + 2 :
         LET r == NewObject(impl, heap, n, size, fail)
         IN /\ heap' = r.heap
            /\ strings' = r.object
            /\ last_op' = [op |-> "new", impl |-> impl, n |-> n, size |-> size,
                        fail |-> fail, threw |-> r.threw]
  /\ UNCHANGED <<out_handle, faults, objective>>

\* _in_bounds, and the conditions written out in StringArray.hpp and in the
\* classes without setitem; the vector-based class takes a size_t, where a
\* negative index of the caller is a value above every number of elements
in_bounds(o, index) == index >= 0 /\ index < o.n

\* content.size() < _string_size
Fits(content, size) == Len(content) < size

\* std::strcpy into block p: the content and its terminator, as far as the
\* block reaches
strcpy(h, p, content) ==
  LET b == h[p].data
  IN [h EXCEPT ![p].data =
        Filled([i \in 1..Len(b) |-> IF i <= Len(content) THEN content[i]
                                    ELSE IF i = Len(content) + 1 THEN 0
                                    ELSE b[i]])]

\* the element the object's pointer array holds at index; Garbage is what a
\* read through a null pointer array gives
Element(h, o, index) ==
  IF o.array = Null THEN Garbage ELSE h[o.array].data[index + 1]

setitem ==
  /\ InUse /\ strings.impl \in {"part", "vector"}
  /\ \E index \in -1..MaxElements, content \in Contents :
       LET stores == in_bounds(strings, index) /\ Fits(content, strings.size)
           target == IF stores THEN Element(heap, strings, index) ELSE Null
           null_array == stores /\ strings.array = Null
           overflow == /\ stores /\ ~null_array
                       /\ Len(content) + 1 > Len(heap[target].data)
       IN \E outcome \in Outcomes(null_array \/ overflow) :
            /\ faults' = faults \cup (IF null_array THEN {"null_deref"} ELSE {})
                                \cup (IF overflow THEN {"overflow"} ELSE {})
            /\ heap' = IF stores /\ ~null_array
                       THEN strcpy(heap, target, content) ELSE heap
            /\ last_op' = IF outcome = "crash" THEN Crashed("setitem")
                       ELSE [op |-> "setitem", index |-> index,
                             content |-> content, before |-> heap,
                             ret |-> IF stores THEN 0 ELSE -1]
            /\ strings' = IF outcome = "crash" THEN NoObject ELSE strings
  /\ UNCHANGED <<out_handle, objective>>

\* getitem, get_string, get_feature_name
getitem ==
  /\ InUse
  /\ \E index \in -1..MaxElements :
       LET inside == in_bounds(strings, index)
           null_array == inside /\ strings.array = Null
       IN \E outcome \in Outcomes(null_array) :
            /\ faults' = faults \cup (IF null_array THEN {"null_deref"} ELSE {})
            /\ last_op' = IF outcome = "crash" THEN Crashed("getitem")
                       ELSE [op |-> "getitem", index |-> index,
                             ret |-> IF inside
                                     THEN Element(heap, strings, index)
                                     ELSE Null]
            /\ strings' = IF outcome = "crash" THEN NoObject ELSE strings
  /\ UNCHANGED <<heap, out_handle, objective>>

\* StringArrayHandle_free, custom_FeatureNamesFree, delete: the destructor
\* and the release of the object
StringArrayHandle_free ==
  /\ InUse
  /\ \E outcome \in Outcomes(DestroyFaults(strings) # {}) :
       /\ faults' = faults \cup DestroyFaults(strings)
       /\ heap' = IF outcome = "crash" THEN heap ELSE Destroyed(heap, strings)
       /\ last_op' = IF outcome = "crash" THEN Crashed("free")
                  ELSE [op |-> "free", object |-> strings]
  /\ strings' = NoObject
  /\ UNCHANGED <<out_handle, objective>>

\* the string size LGBM_BoosterGetEvalNamesSWIG asks for
EvalNameSize == 128

\* what a wrapper leaves behind: handle is the caller's out-handle at return,
\* failed the LightGBM call that returned -1 ("none", "names", "num_feature"),
\* threw whether an exception left the wrapper instead of ret
Wrapped(name, h, o, handle, failed, ret, threw) ==
  /\ heap' = h /\ strings' = o /\ out_handle' = handle
  /\ last_op' = [op |-> "wrapper", name |-> name, failed |-> failed,
                 ret |-> ret, threw |-> threw]

\* the wrappers that catch std::bad_alloc and null the caller's handle
Guarded(name, n, size, fail, api) ==
  LET r == NewObject("vector", heap, n, size, fail)
  IN IF r.threw THEN Wrapped(name, r.heap, NoObject, Null, "none", -1, FALSE)
     ELSE IF api = -1
     THEN Wrapped(name, Destroyed(r.heap, r.object), NoObject, Null, "names",
                  -1, FALSE)
     ELSE Wrapped(name, r.heap, r.object, r.object.self, "none", 0, FALSE)

LGBM_BoosterGetEvalNamesSWIG ==
  /\ last_op.op = "none"
  /\ \E n \in 0..MaxElements, api \in {0, -1} : \E fail \in 0..n + 2 :
       Guarded("LGBM_BoosterGetEvalNamesSWIG", n, EvalNameSize, fail, api)
  /\ UNCHANGED <<faults, objective>>

\* the second LGBM_BoosterGetFeatureNamesSWIG: LGBM_BoosterGetNumFeature
\* first, whose failure returns with the caller's handle as it was
LGBM_BoosterGetFeatureNamesSWIG ==
  /\ last_op.op = "none"
  /\ \E n \in 0..MaxElements, size \in 0..MaxStringSize, api \in {0, -1},
        num_feature \in {0, -1} : \E fail \in 0..n + 2 :
       IF num_feature = -1
       THEN Wrapped("LGBM_BoosterGetFeatureNamesSWIG", heap, NoObject,
                    out_handle, "num_feature", -1, FALSE)
       ELSE Guarded("LGBM_BoosterGetFeatureNamesSWIG", n, size, fail, api)
  /\ UNCHANGED <<faults, objective>>

\* custom_new_LGBM_BoosterGetFeatureNames: no try block; after a failed call
\* the object is freed and the parameter, not the caller's handle, is nulled
custom_new_LGBM_BoosterGetFeatureNames ==
  /\ last_op.op = "none"
  /\ \E n \in 0..MaxElements, size \in 0..MaxStringSize, api \in {0, -1} :
       \E fail \in 0..n + 2 :
         LET r == NewObject("names", heap, n, size, fail)
             name == "custom_new_LGBM_BoosterGetFeatureNames"
         IN IF r.threw
            THEN Wrapped(name, r.heap, NoObject, out_handle, "none", -1, TRUE)
            ELSE IF api = -1
            THEN Wrapped(name, Destroyed(r.heap, r.object), NoObject,
                         r.object.self, "names", -1, FALSE)
            ELSE Wrapped(name, r.heap, r.object, r.object.self, "none", 0,
                         FALSE)
  /\ UNCHANGED <<faults, objective>>

\* the first LGBM_BoosterGetFeatureNamesSWIG: the out-pointer is set to null
\* and then written through; the caller's handle is never written
LGBM_BoosterGetFeatureNamesSWIG_first ==
  /\ last_op.op = "none"
  /\ \E n \in 0..MaxElements, size \in 0..MaxStringSize, api \in {0, -1} :
       \E fail \in 0..n + 2 :
         LET r == NewObject("plain", heap, n, size, fail)
             name == "LGBM_BoosterGetFeatureNamesSWIG_first"
         IN \E outcome \in Outcomes(~r.threw) :
              /\ faults' = faults \cup
                             (IF r.threw THEN {} ELSE {"null_deref"})
              /\ IF r.threw
                 THEN Wrapped(name, r.heap, NoObject, out_handle, "none", -1,
                              TRUE)
                 ELSE IF outcome = "crash"
                 THEN /\ heap' = r.heap /\ strings' = NoObject
                      /\ last_op' = Crashed(name) /\ UNCHANGED out_handle
                 ELSE IF api = -1
                 THEN Wrapped(name, Destroyed(r.heap, r.object), NoObject,
                              out_handle, "names", -1, FALSE)
                 ELSE Wrapped(name, r.heap, NoObject, out_handle, "none", 0,
                              FALSE)
  /\ UNCHANGED objective

SwigConfigs == {c \in SigmoidConfigs : c.sigmoid = 1}

\* the objective stays unconstructed here: one configuration, one dataset
SwigMetadatas ==
  {m \in Metadatas(1) : m.label[1] = 0 /\ m.weights = <<>>
                          /\ m.query_boundaries # <<>>}

InitSwig == InitWith(SwigConfigs, SwigMetadatas, 1, {0, 1})

NextSwig ==
  \/ NewStringArray
  \/ setitem
  \/ getitem
  \/ StringArrayHandle_free
  \/ LGBM_BoosterGetEvalNamesSWIG
  \/ LGBM_BoosterGetFeatureNamesSWIG
  \/ custom_new_LGBM_BoosterGetFeatureNames
  \/ LGBM_BoosterGetFeatureNamesSWIG_first

SpecSwig == InitSwig /\ [][NextSwig]_vars

\* ---------------------------------------------------------------------------
\* The width of the indices a query keeps in std::vector<int16_t>: one index
\* of one query followed from the int it is assigned from to its use.  A
\* query's size is a data_size_t that nothing in Init or GetGradients bounds.
\* ---------------------------------------------------------------------------

\* the largest int16_t
Int16Max == 32767

\* query sizes: the small ones, and those around the multiples of 2^15
QuerySizes ==
  1..MaxData \cup
  {k * (Int16Max + 1) + d : k \in 1..MaxWraps, d \in {-1, 0, 1}}

\* the indices followed in a query of cnt documents
ProbedIndices(cnt) ==
  {j \in {0} \cup QuerySizes \cup {n - 1 : n \in QuerySizes} : j < cnt}

\* everything but the probe
unprobed == <<config, metadata, num_threads, score_values, sigmoid_lookup,
              jni, ranking, rand_, lambdarank, call, phase, book>>

\* line 60: sample_candidates_.push_back(j), j an int below cnt, for a
\* document i # j of the query with a larger label
PushCandidate ==
  /\ index_probe.at = "none"
  /\ \E cnt \in QuerySizes \ {1} : \E j \in ProbedIndices(cnt) :
       index_probe' = [at |-> "sample_candidates_", cnt |-> cnt, value |-> j,
                       stored |-> ToInt16(j), valid |-> TRUE]
  /\ UNCHANGED unprobed

\* lines 102 and 107: ref_out[i].push_back(sample_candidates_[...]), from an
\* int16_t to an int16_t
CopySampled ==
  /\ index_probe.at = "sample_candidates_"
  /\ index_probe' = [index_probe EXCEPT !.at = "sampled_pair"]
  /\ UNCHANGED unprobed

\* line 220: sorted_mapper[sorted_idx[i]] = i, i an int below cnt
MapRank ==
  /\ index_probe.at = "none"
  /\ \E cnt \in QuerySizes : \E i \in ProbedIndices(cnt) :
       index_probe' = [at |-> "sorted_mapper", cnt |-> cnt, value |-> i,
                       stored |-> ToInt16(i), valid |-> TRUE]
  /\ UNCHANGED unprobed

\* lines 257 and 266: sorted_mapper[sample_pair[high][j]] and
\* sorted_idx[cur_j] index a vector of cnt elements with the value held
UseIndex ==
  /\ index_probe.at \in {"sampled_pair", "sorted_mapper"}
  /\ index_probe' =
       [index_probe EXCEPT !.at = IF @ = "sampled_pair"
                                  THEN "sorted_mapper index"
                                  ELSE "sorted_idx index",
                           !.valid = index_probe.stored \in
                                       0..(index_probe.cnt - 1)]
  /\ UNCHANGED unprobed

\* the objective stays unconstructed here too
InitWidth == InitWith(SwigConfigs, SwigMetadatas, 1, {0, 1})

NextWidth == PushCandidate \/ CopySampled \/ MapRank \/ UseIndex

SpecWidth == InitWidth /\ [][NextWidth]_vars

-----------------------------------------------------------------------------
(* Properties *)

\* a GetGradients call has returned
Returned == phase = "ready" /\ calls > 0

Queries == 0..(num_queries_ - 1)

QueryStart(q) == At(query_boundaries_, q)

QueryCnt(q) == At(query_boundaries_, q + 1) - At(query_boundaries_, q)

\* the positions of query q's documents in the arrays
Docs(q) == (QueryStart(q) + 1)..(QueryStart(q) + QueryCnt(q))

\* the arrays of this call are those of the call before
SameOutputs == gradients = prev.gradients /\ hessians = prev.hessians

SameOutputsAt(d) ==
  gradients[d] = prev.gradients[d] /\ hessians[d] = prev.hessians[d]

ZeroAt(d) == gradients[d] = Zero /\ hessians[d] = Zero

\* a thread is between the read and the write of a draw from rand_
Drawing(t) == pc[t] \in {"sample_store", "gamma_store"}

\* C1: during a GetGradients call no two threads are at once inside a
\* read-modify-write of shared state of the objective: never are two of them
\* between the read and the write of a draw from rand_
C1_NoConcurrentDraw ==
  \A t1, t2 \in Threads : t1 # t2 => ~(Drawing(t1) /\ Drawing(t2))

Altered_docs == {d \in 1..num_data_ : score[d] # prev.score[d]}

\* C4: the queries partition the documents, a query that has not started
\* has nothing written in its slice, and of two runs from the same state of
\* the objective whose scores differ only inside one query, the lambdas and
\* hessians of every other query are equal
C4_QueryIndependence ==
  /\ phase \in {"ready", "running"} =>
        \A d \in 1..num_data_ :
          Cardinality({q \in Queries : d \in Docs(q)}) = 1
  /\ phase = "running" =>
        \A q \in next_query..(num_queries_ - 1) :
          \A d \in Docs(q) : gradients[d] = Stale /\ hessians[d] = Stale
  /\ (Returned /\ calls >= 2 /\ entry_rand = prev.entry_rand) =>
        \A q0 \in Queries :
          (Altered_docs # {} /\ Altered_docs \subseteq Docs(q0)) =>
            \A q \in Queries \ {q0} : \A d \in Docs(q) : SameOutputsAt(d)

\* the candidate slice of document d, as stored
CandidateSlice(d) ==
  [k \in 1..(CandEnd(d) - CandStart(d)) |->
     At(sample_candidates_, CandStart(d) + k - 1)]

\* the documents of query q, by their index in the query, whose label is
\* below that of document i of the query
Inferior(q, i) ==
  {j \in 0..(QueryCnt(q) - 1) :
     At(label_, QueryStart(q) + j) < At(label_, QueryStart(q) + i)}

\* C5: once Init has built the candidate index (threshold > 0), the
\* boundaries are N + 1 non-decreasing offsets from 0, and the slice of every
\* document lists in ascending order, each once, exactly the documents of its
\* own query with a smaller label, by their index in the query
C5_CandidateIndex ==
  (phase = "ready" /\ sample_cnt_ > 0) =>
    /\ Len(sample_candidates_boundaries_) = num_data_ + 1
    /\ At(sample_candidates_boundaries_, 0) = 0
    /\ \A d \in 0..(num_data_ - 1) : CandStart(d) <= CandEnd(d)
    /\ \A q \in Queries : \A i \in 0..(QueryCnt(q) - 1) :
         LET slice == CandidateSlice(QueryStart(q) + i)
         IN  /\ \A k \in 1..(Len(slice) - 1) : slice[k] < slice[k + 1]
             /\ Range(slice) = Inferior(q, i)

\* the index is built, and a document of a query that is not the first has
\* a candidate
C5_IndexBuilt ==
  /\ phase = "ready" /\ sample_cnt_ > 0
  /\ \E q \in Queries : \E i \in 0..(QueryCnt(q) - 1) :
       /\ QueryStart(q) > 0
       /\ CandEnd(QueryStart(q) + i) > CandStart(QueryStart(q) + i)

\* thread t has left Sample and is in the kernel of its query
InKernel(t) ==
  pc[t] \in {"gamma_load", "gamma_store", "kernel", "norm", "weights"}

Min(a, b) == IF a < b THEN a ELSE b

\* C6: a query goes to the sampled kernel iff the threshold is > 0 and the
\* query is larger than it; then sampled_pair has one list per document, of
\* min(threshold, number of candidates) entries, each once, all from the
\* document's candidate slice, and the slice itself when it is no longer
\* than the threshold, whatever the buffer held from the thread's query before
C6_SampleShape ==
  \A t \in Threads :
    /\ pc[t] # "idle" =>
         (task[t].is_sampled <=>
            (sample_cnt_ > 0 /\ task[t].cnt > sample_cnt_))
    /\ (InKernel(t) /\ task[t].is_sampled) =>
         /\ Len(task[t].sampled_pair) = task[t].cnt
         /\ \A i \in 0..(task[t].cnt - 1) :
              LET slice == CandidateSlice(task[t].start + i)
                  list == At(task[t].sampled_pair, i)
              IN  /\ Len(list) = Min(sample_cnt_, Len(slice))
                  /\ NoDuplicates(list)
                  /\ Range(list) \subseteq Range(slice)
                  /\ Len(slice) <= sample_cnt_ => list = slice

\* the second query of a thread is in the sampled kernel, after a larger
\* query has filled the thread's buffer, with a list that was drawn
C6_BufferReused ==
  \E t \in Threads :
    /\ InKernel(t) /\ task[t].is_sampled /\ task[t].query_id = 1
    /\ QueryCnt(0) > task[t].cnt
    /\ \E i \in 0..(task[t].cnt - 1) :
         /\ Len(At(task[t].sampled_pair, i)) = sample_cnt_
         /\ Len(CandidateSlice(task[t].start + i)) > sample_cnt_

\* the query of thread t as the pair loops read it
TaskQuery(t) ==
  QueryOf(task[t].is_sampled, task[t].query_id, task[t].start, task[t].cnt,
          task[t].sampled_pair, TaskLabel(t), TaskScore(t),
          SortedIdx(TaskScore(t)))

\* the positions j the inner loop visits for rank i
Positions(c, i) ==
  IF c.sample THEN 0..(Len(At(c.sample_pair, At(c.sorted_idx, i))) - 1)
  ELSE 0..(c.cnt - 1)

\* one turn of the inner loop on zeroed slices: what low has received is
\* the negation of what high is to receive in lambda, and the same in hessian
PairBalanced(c, i, j) ==
  LET a == PairStep(c, i, j,
                    IF c.sample
                    THEN Factor(c.offset, At(c.sorted_idx, i), c.sample_pair)
                    ELSE One,
                    ZeroAcc(<<>>, <<>>, c.cnt))
  IN  /\ RSum(a.lambdas) = RNeg(a.high_sum_lambda)
      /\ RSum(a.hessians) = a.high_sum_hessian
      /\ Cardinality({d \in 1..c.cnt : a.hessians[d] # Zero}) <= 1

\* C7: in the Lambdarank kernel every pair gives low the negation of the
\* lambda it gives high and the same hessian, and the lambdas of a query sum
\* to 0 after the pair loops and after the normalization, before the weights
C7_Antisymmetry ==
  \A t \in Threads :
    /\ (pc[t] = "kernel" /\ config.kind = "lambdarank") =>
         \A i \in 0..(task[t].cnt - 1) :
           At(TaskScore(t), At(SortedIdx(TaskScore(t)), i)) # kMinScore =>
             \A j \in Positions(TaskQuery(t), i) :
               PairBalanced(TaskQuery(t), i, j)
    /\ pc[t] \in {"norm", "weights"} => RSum(TaskLambdas(t)) = Zero

\* a query of three documents with pairs retained has been normalized, and
\* its lambdas, not all zero, wait for the weights
C7_NormalizedQuery ==
  \E t \in Threads :
    /\ pc[t] = "weights" /\ norm_ /\ task[t].cnt = 3
    /\ RLess(Zero, task[t].sum_lambdas)
    /\ \E d \in 1..task[t].cnt : TaskLambdas(t)[d] # Zero

\* the labels of query q
QueryLabels(q) == Slice(label_, QueryStart(q), QueryCnt(q))

\* C8: when a call of LambdarankNDCG has returned, a query whose documents
\* all have the same label, or whose maximum DCG is 0, has 0 in every lambda
\* and every hessian of its slice
C8_DegenerateQueryZero ==
  (Returned /\ config.kind = "lambdarank") =>
    \A q \in Queries :
      (\/ Cardinality(Range(QueryLabels(q))) = 1
       \/ CalMaxDCGAtK(truncation_level_, QueryLabels(q), label_gain_) = Zero)
        => \A d \in Docs(q) : ZeroAt(d)

\* a call has returned for a weighted, normalized query whose labels differ
\* and whose maximum DCG is 0
C8_ZeroMaxDCG ==
  /\ Returned /\ config.kind = "lambdarank" /\ norm_ /\ weights_ # <<>>
  /\ \E q \in Queries :
       /\ Cardinality(Range(QueryLabels(q))) > 1
       /\ At(inverse_max_dcgs_, q) = Zero
       /\ \A d \in Docs(q) : ZeroAt(d)

\* C9: when a call of RankXENDCG has returned, a query whose labels are all
\* 0 has 0 in every lambda and every hessian of its slice
C9_ZeroLabelsZeroOutput ==
  (Returned /\ config.kind = "rank_xendcg") =>
    \A q \in Queries :
      (\A d \in Docs(q) : label_[d] = 0) => \A d \in Docs(q) : ZeroAt(d)

\* the metadata Init accepts
ValidMetadata ==
  /\ \A d \in 1..Len(metadata.label) : metadata.label[d] \in 0..MaxLabel
  /\ metadata.query_boundaries # <<>>

NothingBuilt ==
  /\ sample_candidates_ = <<>> /\ sample_candidates_boundaries_ = <<>>
  /\ inverse_max_dcgs_ = <<>> /\ sigmoid_table_ = <<>>

\* C10: the constructor of LambdarankNDCG is fatal exactly for sigmoid <= 0,
\* Init is fatal exactly for metadata without query boundaries or with a
\* label out of range, a GetGradients call runs or has run only after an
\* Init that succeeded, and after a fatal Init nothing has been built
C10_InitGates ==
  /\ phase # "config" =>
       (phase = "fatal_ctor" <=>
          (config.kind = "lambdarank" /\ config.sigmoid <= 0))
  /\ phase \in {"ready", "running", "fatal_init"} =>
       (phase = "fatal_init" <=> ~ValidMetadata)
  /\ (phase = "running" \/ calls > 0) => (n_inits >= 1 /\ ValidMetadata)
  /\ phase \in {"fatal_ctor", "fatal_init"} => (calls = 0 /\ NothingBuilt)

\* Init has ended in a fatal error for metadata with valid labels and no
\* query boundaries, on an objective that asked for the candidate index
C10_FatalInit ==
  /\ phase = "fatal_init" /\ metadata.query_boundaries = <<>>
  /\ \A d \in 1..Len(metadata.label) : metadata.label[d] \in 0..MaxLabel
  /\ sample_cnt_ > 0 /\ NothingBuilt

\* C11: every GetSigmoid lookup reads an index inside the table: entry 0 for
\* x <= min, entry bins - 1 for x >= max, and otherwise entry
\* floor((x - min) * bins / (max - min)), which is within 0..bins - 1
C11_LookupInRange ==
  sigmoid_lookup # NoLookup =>
    LET x == sigmoid_lookup.x
        k == sigmoid_lookup.index
    IN  /\ 0 <= k /\ k <= sigmoid_bins - 1
        /\ RLeq(x, min_sigmoid_input_) => k = 0
        /\ RLeq(max_sigmoid_input_, x) => k = sigmoid_bins - 1
        /\ (RLess(min_sigmoid_input_, x) /\ RLess(x, max_sigmoid_input_)) =>
             k = RFloor(RDiv(RMul(RSub(x, min_sigmoid_input_),
                                  Num(sigmoid_bins)),
                             RSub(max_sigmoid_input_, min_sigmoid_input_)))

RECURSIVE RPow(_, _)
RPow(x, n) == IF n = 0 THEN One ELSE RMul(x, RPow(x, n - 1))

\* the input of table entry i, from the bounds
EntryInput(i) ==
  RAdd(min_sigmoid_input_,
       RDiv(RMul(Num(i), RSub(max_sigmoid_input_, min_sigmoid_input_)),
            Num(sigmoid_bins)))

RECURSIVE GammasFrom(_, _)
GammasFrom(r, n) ==
  IF n = 0 THEN [rand |-> r, gammas |-> <<>>]
  ELSE LET rest == GammasFrom(RandNext(r), n - 1)
       IN  [rand |-> rest.rand,
            gammas |-> <<NextFloat(RandNext(r))>> \o rest.gammas]

\* the query's slices stored into the arrays, the next query follows
RECURSIVE UnsampledXendcg(_, _, _, _, _)
UnsampledFrom(q, drawn, sc, lams, hess, out) ==
  UnsampledXendcg(q + 1, drawn.rand, sc,
                  Splice(lams, QueryStart(q), out.lambdas),
                  Splice(hess, QueryStart(q), out.hessians))

\* lines 73-86 of a RankXENDCG without sampling, on one thread: the queries
\* from q on, the generator being in state r
UnsampledXendcg(q, r, sc, lams, hess) ==
  IF q = num_queries_ THEN [gradients |-> lams, hessians |-> hess]
  ELSE UnsampledFrom(q, GammasFrom(r, QueryCnt(q)), sc, lams, hess,
                     XeKernel(QueryStart(q), QueryCnt(q), QueryLabels(q),
                              Slice(sc, QueryStart(q), QueryCnt(q)),
                              GammasFrom(r, QueryCnt(q)).gammas,
                              Slice(lams, QueryStart(q), QueryCnt(q)),
                              Slice(hess, QueryStart(q), QueryCnt(q))))

\* C13: the first GetGradients call of a RankXENDCG, whatever its sampling
\* threshold, returns the lambdas and hessians that a RankXENDCG with the
\* same seed and sampling disabled returns for the same scores
C13_SamplingIgnored ==
  (Returned /\ config.kind = "rank_xendcg" /\ calls = 1) =>
    LET r == CHOOSE x \in RandInit(config.objective_seed) : TRUE
        stale == [d \in 1..num_data_ |-> Stale]
        ref == UnsampledXendcg(0, r, score, stale, stale)
    IN  gradients = ref.gradients /\ hessians = ref.hessians

\* the ranks of query c whose document has a score that is not the sentinel
RealRanks(c) ==
  {i \in 0..(c.cnt - 1) : At(c.score, At(c.sorted_idx, i)) # kMinScore}

\* the score at the lowest of those ranks
LowestRealScore(c) ==
  At(c.score, At(c.sorted_idx,
                 CHOOSE i \in RealRanks(c) : \A k \in RealRanks(c) : k <= i))

\* the pair's delta NDCG before the score-distance division (line 283)
PlainDelta(c, i, j) ==
  RMul(RMul(Num(At(label_gain_, At(c.label, At(c.sorted_idx, i)))
                  - At(label_gain_, At(c.label, At(c.sorted_idx, j)))),
            RAbs(RSub(GetDiscount(i), GetDiscount(j)))),
       c.inverse_max_dcg)

\* the pair's delta NDCG as the kernel computes it (lines 283-287)
KernelDelta(c, i, j) ==
  DeltaPairNDCG(At(c.label, At(c.sorted_idx, i)),
                At(c.label, At(c.sorted_idx, j)), i, j,
                Num(At(c.score, At(c.sorted_idx, i))
                      - At(c.score, At(c.sorted_idx, j))),
                c.inverse_max_dcg, c.best_score, c.worst_score)

\* the division by 0.01 + |delta_score| is applied to the pair of ranks i, j
\* iff norm_ and best_score # worst_score
DividedIff(c, i, j) ==
  KernelDelta(c, i, j) =
    IF norm_ /\ c.best_score # c.worst_score
    THEN RDiv(PlainDelta(c, i, j),
              RAdd(<<1, 100>>,
                   RAbs(Num(At(c.score, At(c.sorted_idx, i))
                              - At(c.score, At(c.sorted_idx, j))))))
    ELSE PlainDelta(c, i, j)

\* C17: in the Lambdarank kernel of a query with a document whose score is
\* not the sentinel, worst_score is the score of the lowest-ranked document
\* whose score is not the sentinel, best_score is the score at rank 0, and
\* the pairs of documents with different labels have their delta NDCG
\* divided by 0.01 + |delta_score| iff norm_ and best_score # worst_score
C17_WorstScore ==
  \A t \in Threads :
    (pc[t] = "kernel" /\ config.kind = "lambdarank"
       /\ RealRanks(TaskQuery(t)) # {}) =>
      /\ TaskQuery(t).worst_score = LowestRealScore(TaskQuery(t))
      /\ TaskQuery(t).best_score =
           At(TaskScore(t), At(SortedIdx(TaskScore(t)), 0))
      /\ \A i, j \in RealRanks(TaskQuery(t)) :
           At(TaskLabel(t), At(SortedIdx(TaskScore(t)), i))
             > At(TaskLabel(t), At(SortedIdx(TaskScore(t)), j))
           => DividedIff(TaskQuery(t), i, j)

\* the ordered pairs (h, l) of documents of query c with label[h] > label[l]
\* and neither score the sentinel
ExpectedPairs(c) ==
  {hl \in (0..(c.cnt - 1)) \X (0..(c.cnt - 1)) :
     /\ At(c.label, hl[1]) > At(c.label, hl[2])
     /\ At(c.score, hl[1]) # kMinScore
     /\ At(c.score, hl[2]) # kMinScore}

RankOf(c, d) == CHOOSE i \in 0..(c.cnt - 1) : At(c.sorted_idx, i) = d

\* the contribution of the pair (h, l) added to acc: to l, and to h
Contribution(c, h, l, acc) ==
  AddHigh(UpdatePair(c, l, One,
                     [acc EXCEPT !.high_sum_lambda = Zero,
                                 !.high_sum_hessian = Zero],
                     GetSigmoid(Num(At(c.score, h) - At(c.score, l))),
                     KernelDelta(c, RankOf(c, h), RankOf(c, l))),
          h)

RECURSIVE SumPairs(_, _, _)
SumPairs(c, pairs, acc) ==
  IF pairs = {} THEN acc
  ELSE LET hl == CHOOSE x \in pairs : TRUE
       IN  SumPairs(c, pairs \ {hl}, Contribution(c, hl[1], hl[2], acc))

\* query c as it is read when the documents with the sentinel score count
\* for nothing but the ranks they hold: the worst score is that of the
\* lowest-ranked document that has a score
WithoutSentinels(c) ==
  IF RealRanks(c) = {} THEN c
  ELSE [c EXCEPT !.worst_score = LowestRealScore(c)]

\* the slices and sum_lambdas of thread t's query are those of acc
PairLoopsGave(t, acc) ==
  /\ TaskLambdas(t) = acc.lambdas
  /\ TaskHessians(t) = acc.hessians
  /\ task[t].sum_lambdas = acc.sum_lambdas

\* C16: after the pair loops of the unsampled Lambdarank kernel the slices
\* hold one contribution for each ordered pair (h, l) with label[h] > label[l]
\* and neither score the sentinel, and nothing else, each contribution being
\* what the pair gets when the sentinel-scored documents count only for the
\* ranks they hold; and when the call has returned, a document whose score
\* is the sentinel has lambda 0 and hessian 0
C16_PairCoverage ==
  /\ \A t \in Threads :
       (pc[t] = "norm" /\ ~task[t].is_sampled) =>
         PairLoopsGave(t, SumPairs(WithoutSentinels(TaskQuery(t)),
                                   ExpectedPairs(TaskQuery(t)),
                                   ZeroAcc(<<>>, <<>>, task[t].cnt)))
  /\ (Returned /\ config.kind = "lambdarank") =>
       \A d \in 1..num_data_ : score[d] = kMinScore => ZeroAt(d)

\* what the pair loops have accumulated, every amount multiplied by f
ScaledAcc(a, f) ==
  [lambdas |-> Scale(a.lambdas, f), hessians |-> Scale(a.hessians, f),
   high_sum_lambda |-> RMul(a.high_sum_lambda, f),
   high_sum_hessian |-> RMul(a.high_sum_hessian, f),
   sum_lambdas |-> RMul(a.sum_lambdas, f)]

\* the factor f of the document at rank i of the sampled query c, whose
\* sampled list is list and whose candidate slice is slice: the quotient of
\* their lengths, at least 1, 1 exactly for the full list, and every turn of
\* the inner loop adds f times what it adds unsampled
FactorRight(c, i, list, slice, f) ==
  /\ Len(list) # 0
  /\ f = Frac(Len(slice), Len(list))
  /\ RLeq(One, f)
  /\ f = One <=> list = slice
  /\ \A j \in 0..(Len(list) - 1) :
       PairStep(c, i, j, f, ZeroAcc(<<>>, <<>>, c.cnt)) =
         ScaledAcc(PairStep(c, i, j, One, ZeroAcc(<<>>, <<>>, c.cnt)), f)

\* no document of thread t's query has more candidates than the threshold
AllListsFull(t) ==
  \A i \in 0..(task[t].cnt - 1) :
    Len(CandidateSlice(task[t].start + i)) <= sample_cnt_

\* C18: in the sampled Lambdarank kernel, for every document h that is
\* high in a turn of the inner loop, the factor is (#candidates of h) /
\* (#sampled candidates of h) with a non-zero denominator, is >= 1, is 1
\* exactly when the full candidate list was used, and multiplies every
\* contribution of h; and a sampled query in which no document has more
\* candidates than the threshold gets from the pair loops what the unsampled
\* kernel gives on the same inputs
C18_RecoveryFactor ==
  \A t \in Threads :
    /\ (pc[t] = "kernel" /\ config.kind = "lambdarank" /\ task[t].is_sampled)
         => \A i \in RealRanks(TaskQuery(t)) :
              At(task[t].sampled_pair, At(SortedIdx(TaskScore(t)), i)) # <<>>
              => FactorRight(TaskQuery(t), i,
                   At(task[t].sampled_pair, At(SortedIdx(TaskScore(t)), i)),
                   CandidateSlice(task[t].start
                                    + At(SortedIdx(TaskScore(t)), i)),
                   Factor(task[t].start, At(SortedIdx(TaskScore(t)), i),
                          task[t].sampled_pair))
    /\ (pc[t] = "norm" /\ task[t].is_sampled /\ AllListsFull(t))
         => PairLoopsGave(t, Accumulate(FALSE, task[t].query_id,
                                        task[t].start, task[t].cnt, <<>>,
                                        TaskLabel(t), TaskScore(t),
                                        <<>>, <<>>))

\* the pair loops of a sampled query whose lists are all full have given a
\* lambda that is not 0
C18_FullListsQuery ==
  \E t \in Threads :
    /\ pc[t] = "norm" /\ task[t].is_sampled /\ AllListsFull(t)
    /\ \E d \in 1..task[t].cnt : TaskLambdas(t)[d] # Zero

\* label_gain_ does not decrease with the label
MonotoneGains ==
  \A a, b \in 1..Len(label_gain_) : a <= b => label_gain_[a] <= label_gain_[b]

Blocks == 1..Len(heap)

Live(p) == p \in Blocks /\ heap[p].frees = 0

ReleasedOnce == \A p \in Blocks : heap[p].frees = 1

LiveObjects == {p \in Blocks : heap[p].kind = "object" /\ heap[p].frees = 0}

Wrappers ==
  {"custom_new_LGBM_BoosterGetFeatureNames", "LGBM_BoosterGetEvalNamesSWIG",
   "LGBM_BoosterGetFeatureNamesSWIG", "LGBM_BoosterGetFeatureNamesSWIG_first"}

\* the wrappers that pass the contract below
GuardedWrappers ==
  {"LGBM_BoosterGetEvalNamesSWIG", "LGBM_BoosterGetFeatureNamesSWIG"}

WrapperContract(names) ==
  /\ last_op.op = "crashed" => last_op.during \notin names
  /\ (last_op.op = "wrapper" /\ last_op.name \in names /\ ~last_op.threw) =>
       /\ "null_deref" \notin faults
       /\ last_op.failed = "names" =>
            /\ last_op.ret = -1
            /\ out_handle = Null
            /\ ReleasedOnce
       /\ last_op.ret = 0 =>
            /\ Live(out_handle)
            /\ LiveObjects = {out_handle}
            /\ strings.self = out_handle

\* C14: an allocate-and-fetch wrapper whose names call returned -1 returns -1
\* with everything it allocated deleted exactly once and the caller's
\* out-handle null; one that succeeded leaves the caller's out-handle on the
\* one live object; no wrapper writes or reads through a null out-pointer.
C14_WrapperContract == WrapperContract(Wrappers)

\* the classes with setitem
SettableImpls == {"part", "vector"}

\* the bytes of element index of the object in use, in heap h
StringAt(h, index) == h[h[strings.array].data[index + 1]].data

\* a setitem that had to store: the index is an element's and the content
\* with its terminator is within _string_size bytes
MustStore(index, content) ==
  index \in 0..strings.n - 1 /\ Len(content) + 1 <= strings.size

SetitemContract(impls) ==
  (InUse /\ strings.impl \in impls) =>
    /\ "overflow" \notin faults
    /\ strings.array # Null
    /\ Len(heap[strings.array].data) = strings.n + 1
    /\ heap[strings.array].data[strings.n + 1] = Null
    /\ last_op.op = "setitem" =>
         /\ last_op.ret \in {0, -1}
         /\ last_op.ret = 0 <=> MustStore(last_op.index, last_op.content)
         /\ last_op.ret = 0 =>
              /\ SubSeq(StringAt(heap, last_op.index), 1,
                        Len(last_op.content) + 1) = last_op.content \o <<0>>
              /\ \A p \in Blocks :
                   p # heap[strings.array].data[last_op.index + 1] =>
                     heap[p] = last_op.before[p]
         /\ last_op.ret = -1 => heap = last_op.before
    /\ last_op.op = "getitem" =>
         /\ last_op.ret = Null <=> last_op.index \notin 0..strings.n - 1
         /\ last_op.ret # Null =>
              last_op.ret = heap[strings.array].data[last_op.index + 1]

\* C15: setitem returns 0 and stores the content with its terminator in the
\* element iff the index is an element's and the content with its terminator
\* fits _string_size, and otherwise returns -1 and changes nothing; no write
\* passes an element's string_size + 1 bytes, the array keeps num_elements + 1
\* slots with the last one null, getitem returns the null pointer exactly for
\* the indices outside [0, num_elements), and neither call ends in an
\* undefined operation.
C15_SetitemContract ==
  /\ SetitemContract(SettableImpls)
  /\ last_op.op = "crashed" => last_op.during \notin {"setitem", "getitem"}

\* a construction one of whose allocations failed
ConstructionFailed == last_op.op = "new" /\ last_op.fail \in 1..last_op.n + 2

FailedConstruction(impls) ==
  /\ (ConstructionFailed /\ last_op.impl \in impls) =>
       /\ last_op.threw
       /\ ReleasedOnce
  /\ (last_op.op = "free" /\ last_op.object.impl \in impls) =>
       /\ "null_deref" \notin faults
       /\ ReleasedOnce

\* C20: a construction whose allocation of the pointer array or of a string
\* fails releases what it allocated exactly once, leaves nothing live and
\* reports the failure; a later destruction of the object neither indexes a
\* null array pointer nor deletes a block a second time.
C20_FailedConstruction ==
  /\ FailedConstruction(Impls)
  /\ last_op.op = "crashed" => last_op.during # "free"
  /\ \A p \in Blocks : heap[p].frees <= 1

\* what one Init builds from the dataset: the candidate index read through
\* its boundaries, and the max-DCG cache
SingleIndex == BuildIndex(<<>>, metadata.label, metadata.query_boundaries)

IndexAsSingle ==
  sample_cnt_ > 0 =>
    /\ sample_candidates_boundaries_ = SingleIndex.boundaries
    /\ \A d \in 0..(num_data_ - 1) :
         CandidateSlice(d) =
           Slice(SingleIndex.candidates, CandStart(d), CandEnd(d) - CandStart(d))
    /\ \A q \in Queries : \A i \in 0..(QueryCnt(q) - 1) :
         {CandidateSlice(QueryStart(q) + i)[k] :
            k \in 1..Len(CandidateSlice(QueryStart(q) + i))} = Inferior(q, i)

CacheAsSingle ==
  config.kind = "lambdarank" =>
    inverse_max_dcgs_ =
      InverseMaxDCGs(metadata.label, metadata.query_boundaries, label_gain_,
                     truncation_level_)

\* the sigmoid table one Init builds from the constructor's bound of -50
SigmoidAsSingle ==
  config.kind = "lambdarank" =>
    LET lo == SigmoidBound(Num(-50), sigmoid_)
    IN  /\ min_sigmoid_input_ = lo
        /\ max_sigmoid_input_ = RNeg(lo)
        /\ sigmoid_table_ =
             SigmoidTable(lo, SigmoidIdxFactor(lo, RNeg(lo)), sigmoid_)

\* C21: after any number of Init calls with the same dataset the candidate
\* index read through its boundaries, the inverse max-DCG cache and the range
\* and contents of the sigmoid table are those a single Init builds, and the
\* slice of every document holds that document's own inferior candidates.
C21_InitIdempotent ==
  (phase = "ready" /\ n_inits >= 1) =>
    IndexAsSingle /\ CacheAsSingle /\ SigmoidAsSingle

\* C22: every index or rank kept in sample_candidates_, in a sampled_pair
\* list and in sorted_mapper is, for every query size, the value it was
\* assigned from (no wrap-around modulo 2^16), and is within [0, query size)
\* when it indexes sorted_mapper and sorted_idx.
C22_IndexWidth ==
  index_probe.at # "none" =>
    /\ index_probe.stored \in -(Int16Max + 1)..Int16Max
    /\ index_probe.stored = index_probe.value
    /\ index_probe.stored \in 0..(index_probe.cnt - 1)
    /\ index_probe.valid

====
